---- MODULE Spec2Model ----
(***************************************************************************)
(* Medi-Mind agent orchestration: one chat turn through a LangGraph        *)
(* topology (basic_chatbot, mcp_chatbot, doctor_chatbot), the bounded      *)
(* tool-call loop of MCPChatbotNode / DoctorChatbotNode, the RAG chatbot   *)
(* node and the retrieval cache of RAGIntegrationNode.                     *)
(***************************************************************************)
EXTENDS Integers, Sequences, FiniteSets, TLC

VARIABLES
    pc,               \* position of the turn
    use_case,         \* topology selected for the turn
    node,             \* chatbot node class that runs the turn
    tools,            \* self.tools of the chatbot node (sequence of tool names)
    state_messages,   \* state["messages"]: the graph's message channel
    messages,         \* the node's local running conversation
    iteration,        \* loop counter of process
    response,         \* last normalized completion reply
    result,           \* the node's return value {"messages": [...]}
    output,           \* conversation returned by graph.ainvoke
    llm_calls,        \* completion calls made by the chat node in this turn
    tool_batches,     \* tool_node.ainvoke calls made in this turn
    batch_size,       \* how many calls the provider puts in a tool-bearing reply
    next_call_id,     \* next call id the provider will issue
    error,            \* exception that left the turn, or "none"
    llm_raised,       \* the completion provider raised in this turn
    graph,            \* topology compiled for the turn, or "none"
    retrieval_cache,  \* RAGIntegrationNode.retrieval_cache
    rag_initialized,  \* RAGIntegrationNode._initialized
    rag_results,      \* documents the turn's augmentation returned
    rag_queries,      \* retrievals requested of the RAGIntegrationNode
    rag_call,         \* the latest retrieval: its arguments and what it returned
    rag_prev,         \* the retrieval before it
    applied,          \* the latest application of a function to drawn inputs
    mood_node_tools,  \* MoodDetectionNode.tools
    mood_store,       \* the mood kept by the health data server
    mood_run,         \* the latest run of MoodDetectionNode.process
    mood_prev,        \* the run before it
    tasks,            \* the coroutines in flight: where each is suspended, its locals
    mcp_tools,        \* main.mcp_tools
    loader_calls,     \* calls of the MCP tool loader so far
    session_store     \* main.session_store

vars == <<pc, use_case, node, tools, state_messages, messages, iteration,
          response, result, output, llm_calls, tool_batches, batch_size,
          next_call_id, error, llm_raised, graph, retrieval_cache, rag_initialized,
          rag_results, rag_queries, rag_call, rag_prev, applied,
          mood_node_tools, mood_store, mood_run, mood_prev,
          tasks, mcp_tools, loader_calls, session_store>>

(***************************************************************************)
(* Bounds of the model.                                                    *)
(***************************************************************************)
MaxConvLen == 2
MaxCalls == 2

(***************************************************************************)
(* Program constants.                                                      *)
(***************************************************************************)
max_tool_iterations == 10
DefaultThreshold == 15
DefaultNResults == 5

(***************************************************************************)
(* Messages.  type is the LangChain message class; id is the message id    *)
(* that add_messages merges on (0: not assigned yet).                      *)
(***************************************************************************)
Msg(t, c, calls, cid, i) ==
    [type |-> t, content |-> c, tool_calls |-> calls, tool_call_id |-> cid, id |-> i]

\* A content is its text and, for an augmented system prompt, the rendered
\* context block appended to it.
Text(t) == [text |-> t, context |-> <<>>]

NoMsg == Msg("none", Text(""), <<>>, 0, 0)

SystemMessage(c) == Msg("system", c, <<>>, 0, 0)
HumanMessage(c) == Msg("human", c, <<>>, 0, 0)
AIMessage(c, calls) == Msg("ai", c, calls, 0, 0)
ToolMessage(cid) == Msg("tool", Text("tool_output"), <<>>, cid, 0)

(***************************************************************************)
(* Inputs of a turn.                                                       *)
(***************************************************************************)
HumanContents == {"", "q1"}

MessageAlphabet ==
    {SystemMessage(Text("base_prompt")), AIMessage(Text("answer"), <<>>)}
        \cup {HumanMessage(Text(c)) : c \in HumanContents}

Conversations == UNION {[1..n -> MessageAlphabet] : n \in 0..MaxConvLen}

\* A tool name is its "_"-separated segments: patient_search is <<"patient", "search">>.
ToolLists ==
    { <<>>,
      << <<"multiply">> >>,
      << <<"health", "get", "mood">>, <<"health", "update", "mood">>, <<"multiply">> >>,
      << <<"patient", "search">>, <<"health", "update", "mood">> >>,
      << <<"patient", "get">>, <<"gmail", "send", "email">> >> }

UseCases == {"basic_chatbot", "mcp_chatbot", "doctor_chatbot", "rag_chatbot"}

(***************************************************************************)
(* add_messages, the reducer of ChatbotState.messages: messages without an *)
(* id get a fresh one, a message whose id is already in the channel        *)
(* replaces that entry in place, any other message is appended.            *)
(***************************************************************************)
MaxOf(S) == IF S = {} THEN 0 ELSE CHOOSE x \in S : \A y \in S : y <= x

MaxId(s) == MaxOf({s[i].id : i \in DOMAIN s})

AssignIds(s, base) ==
    [i \in DOMAIN s |-> IF s[i].id = 0 THEN [s[i] EXCEPT !.id = base + i] ELSE s[i]]

RECURSIVE MergeById(_, _)
MergeById(left, right) ==
    IF right = <<>> THEN left
    ELSE LET m == Head(right)
             hit == {i \in DOMAIN left : left[i].id = m.id}
         IN IF hit # {}
            THEN MergeById([left EXCEPT ![CHOOSE i \in hit : TRUE] = m], Tail(right))
            ELSE MergeById(Append(left, m), Tail(right))

add_messages_overwrite(left, right) ==
    AssignIds(right, MaxId(left \o right))

add_messages(left, right) ==
    LET base == MaxId(left \o right)
        l == AssignIds(left, base)
        r == AssignIds(right, base + Len(left))
    IN MergeById(l, r)

(***************************************************************************)
(* GraphBuilder.setup_graph: the entry node of the compiled graph, or the  *)
(* ValueError it raises.                                                   *)
(***************************************************************************)
setup_graph_fallback(usecase) ==
    IF usecase = "basic_chatbot" THEN "chatbot"
    ELSE "mood_detection"

setup_graph_chat_first(usecase) ==
    IF usecase \in {"basic_chatbot", "mcp_chatbot"} THEN "chatbot"
    ELSE "ValueError"

setup_graph(usecase) ==
    IF usecase = "basic_chatbot" THEN "chatbot"
    ELSE IF usecase = "mcp_chatbot" THEN "mood_detection"
    ELSE "ValueError"

(***************************************************************************)
(* mcp_chatbot_build_graph: the tool lists of the two nodes.               *)
(***************************************************************************)
is_patient_tool(tool_name) == Len(tool_name) >= 2 /\ tool_name[1] = "patient"

mood_tools_to_exclude == { <<"health", "update", "mood">> }

chatbot_tools_mood_kept(ts) ==
    LET keep(t) == ~is_patient_tool(t)
    IN SelectSeq(ts, keep)

chatbot_tools(ts) ==
    LET keep(t) == ~is_patient_tool(t) /\ t \notin mood_tools_to_exclude
    IN SelectSeq(ts, keep)

mood_tools(ts) ==
    LET keep(t) == ~is_patient_tool(t)
    IN SelectSeq(ts, keep)

(***************************************************************************)
(* The semantic retriever: the collection is fixed, so the backing store   *)
(* is unchanged between calls.  Distances are in hundredths.               *)
(***************************************************************************)
Doc(name, d) == [document |-> name, distance |-> d, has_distance |-> TRUE]
DocNoDistance(name) == [document |-> name, distance |-> 0, has_distance |-> FALSE]

Queries == {"q1", "q2", "q3", "q4"}

collection ==
    [q \in Queries |->
        CASE q = "q1" -> <<Doc("a", 10), Doc("b", 70), Doc("c", 90)>>
          [] q = "q2" -> <<Doc("d", 90), DocNoDistance("e")>>
          [] q = "q3" -> <<>>
          [] OTHER    -> <<Doc("f", 85), Doc("g", 86)>>]

Min(a, b) == IF a <= b THEN a ELSE b

\* MedicalRAGCrawler.query_medical_knowledge: the n_results nearest documents.
query_medical_knowledge(query, n_results) ==
    SubSeq(collection[query], 1, Min(n_results, Len(collection[query])))

\* The characters of a query text.
QueryWord(query) ==
    CASE query = "q1" -> <<"q", "1">>
      [] query = "q2" -> <<"q", "2">>
      [] query = "q3" -> <<"q", "3">>
      [] query = "q4" -> <<"q", "4">>
      [] query = "q1_2" -> <<"q", "1", "_", "2">>
      [] OTHER -> <<"q">>

RECURSIVE Digits(_)
\* str(n) for a natural number.
Digits(n) ==
    LET d == <<"0", "1", "2", "3", "4", "5", "6", "7", "8", "9">>
    IN IF n < 10 THEN <<d[n + 1]>> ELSE Digits(n \div 10) \o <<d[(n % 10) + 1]>>

\* cache_key = f"{query}_{n_results}"
cache_key(query, n_results) == QueryWord(query) \o <<"_">> \o Digits(n_results)

\* The environment of one retrieval: whether the crawler can be constructed,
\* what the readiness check answers, whether the query succeeds.
RetrieverOutcome(init_ok, ready, query_ok) ==
    [init_ok |-> init_ok, ready |-> ready, query_ok |-> query_ok]

\* Nothing fails, or exactly one step of the retrieval does.
RetrieverOutcomes ==
    { RetrieverOutcome(TRUE, "true", TRUE), RetrieverOutcome(FALSE, "true", TRUE),
      RetrieverOutcome(TRUE, "raises", TRUE), RetrieverOutcome(TRUE, "false", TRUE),
      RetrieverOutcome(TRUE, "true", FALSE) }

\* RAGIntegrationNode.ensure_ready with auto_init set.
ensure_ready(initialized, env) ==
    IF ~initialized /\ ~env.init_ok
    THEN [initialized |-> FALSE, ready |-> "raises"]
    ELSE [initialized |-> TRUE, ready |-> env.ready]

similarity(d) == 100 - d

filter_keep_all(results, similarity_threshold) == results

filter_by_threshold(results, similarity_threshold) ==
    LET keep(r) == r.has_distance /\ similarity(r.distance) >= similarity_threshold
    IN SelectSeq(results, keep)

\* RAGIntegrationNode.retrieve_medical_context: the documents returned, the
\* cache and the initialized flag afterwards, and whether the retriever's
\* query operation was invoked.
retrieve_cache_empty_too(cache, initialized, query, n_results, similarity_threshold, env) ==
    LET rdy == ensure_ready(initialized, env)
        key == cache_key(query, n_results)
        results == query_medical_knowledge(query, n_results)
        filtered == filter_by_threshold(results, similarity_threshold)
    IN IF rdy.ready # "true"
       THEN [docs |-> <<>>, cache |-> cache, initialized |-> rdy.initialized, queried |-> FALSE]
       ELSE IF key \in DOMAIN cache
       THEN [docs |-> cache[key], cache |-> cache, initialized |-> TRUE, queried |-> FALSE]
       ELSE IF ~env.query_ok
       THEN [docs |-> <<>>, cache |-> cache, initialized |-> TRUE, queried |-> TRUE]
       ELSE [docs |-> filtered,
             cache |-> [k \in DOMAIN cache \cup {key} |->
                           IF k = key THEN filtered ELSE cache[k]],
             initialized |-> TRUE, queried |-> TRUE]

retrieve_always_storing(cache, initialized, query, n_results, similarity_threshold, env) ==
    LET rdy == ensure_ready(initialized, env)
        key == cache_key(query, n_results)
        filtered == filter_by_threshold(query_medical_knowledge(query, n_results),
                                        similarity_threshold)
    IN IF rdy.ready # "true" \/ ~env.query_ok
       THEN [docs |-> <<>>, cache |-> cache, initialized |-> rdy.initialized, queried |-> FALSE]
       ELSE [docs |-> filtered,
             cache |-> [k \in DOMAIN cache \cup {key} |->
                           IF k = key THEN filtered ELSE cache[k]],
             initialized |-> TRUE, queried |-> TRUE]

retrieve_medical_context(cache, initialized, query, n_results, similarity_threshold, env) ==
    LET rdy == ensure_ready(initialized, env)
        key == cache_key(query, n_results)
        results == query_medical_knowledge(query, n_results)
        filtered == filter_by_threshold(results, similarity_threshold)
    IN IF rdy.ready # "true"
       THEN [docs |-> <<>>, cache |-> cache, initialized |-> rdy.initialized, queried |-> FALSE]
       ELSE IF key \in DOMAIN cache
       THEN [docs |-> cache[key], cache |-> cache, initialized |-> TRUE, queried |-> FALSE]
       ELSE IF ~env.query_ok
       THEN [docs |-> <<>>, cache |-> cache, initialized |-> TRUE, queried |-> TRUE]
       ELSE IF results = <<>>
       THEN [docs |-> <<>>, cache |-> cache, initialized |-> TRUE, queried |-> TRUE]
       ELSE [docs |-> filtered,
             cache |-> [k \in DOMAIN cache \cup {key} |->
                           IF k = key THEN filtered ELSE cache[k]],
             initialized |-> TRUE, queried |-> TRUE]

\* Which step of a retrieval raised (or answered "not ready"), if any.
retrieval_failure(cache, initialized, query, n_results, env) ==
    IF ~initialized /\ ~env.init_ok THEN "init_raised"
    ELSE IF env.ready = "raises" THEN "ready_raised"
    ELSE IF env.ready = "false" THEN "not_ready"
    ELSE IF cache_key(query, n_results) \notin DOMAIN cache /\ ~env.query_ok
    THEN "query_raised"
    ELSE "none"

NoCall ==
    [query |-> "", n_results |-> 0, similarity_threshold |-> 0, failure |-> "none",
     hit |-> FALSE, raw |-> <<>>, docs |-> <<>>, queried |-> FALSE,
     cached_after |-> FALSE, prompt |-> Text(""), base |-> Text("")]

\* The record of one retrieve_medical_context call.
CallRecord(cache, initialized, query, n_results, similarity_threshold, env, r) ==
    [query |-> query, n_results |-> n_results,
     similarity_threshold |-> similarity_threshold,
     failure |-> retrieval_failure(cache, initialized, query, n_results, env),
     hit |-> cache_key(query, n_results) \in DOMAIN cache,
     raw |-> IF r.queried /\ env.query_ok
             THEN query_medical_knowledge(query, n_results) ELSE <<>>,
     docs |-> r.docs, queried |-> r.queried,
     cached_after |-> cache_key(query, n_results) \in DOMAIN r.cache,
     prompt |-> Text(""), base |-> Text("")]

\* RAGIntegrationNode.format_rag_context: one entry per document, numbered from 1.
format_rag_context(results) ==
    [i \in DOMAIN results |->
        [index |-> i, similarity |-> similarity(results[i].distance),
         document |-> results[i].document]]

\* RAGIntegrationNode.augment_system_prompt.
augment_system_prompt(cache, initialized, user_query, base_system_prompt, n_results, env) ==
    LET r == retrieve_medical_context(cache, initialized, user_query, n_results,
                                      DefaultThreshold, env)
        rag_context == format_rag_context(r.docs)
    IN [prompt |-> IF r.docs = <<>> \/ rag_context = <<>>
                   THEN base_system_prompt
                   ELSE [text |-> base_system_prompt.text, context |-> rag_context],
        results |-> r.docs, cache |-> r.cache, initialized |-> r.initialized,
        queried |-> r.queried,
        call |-> CallRecord(cache, initialized, user_query, n_results,
                            DefaultThreshold, env, r)]

(***************************************************************************)
(* The completion provider's raw replies, by shape, and their              *)
(* normalization into an assistant message.                                *)
(***************************************************************************)
ReplyShapes == {"AIMessage", "message_like", "dict", "str", "other"}

Replies == [shape : ReplyShapes, has_calls : BOOLEAN]

CallIds(first, n) == [j \in 1..n |-> first + j - 1]

normalize_mirroring(reply, first, n) ==
    IF reply.has_calls /\ reply.shape \in {"AIMessage", "message_like", "dict"}
    THEN AIMessage(Text(""), CallIds(first, n))
    ELSE IF reply.shape = "other" THEN AIMessage(Text("repr"), <<>>)
    ELSE AIMessage(Text("answer"), <<>>)

\* MCPChatbotNode.process / DoctorChatbotNode.process, "Ensure response is an AIMessage".
normalize(reply, first, n) ==
    IF reply.shape = "AIMessage"
    THEN IF reply.has_calls THEN AIMessage(Text(""), CallIds(first, n))
         ELSE AIMessage(Text("answer"), <<>>)
    ELSE IF reply.shape = "other" THEN AIMessage(Text("repr"), <<>>)
    ELSE AIMessage(Text("answer"), <<>>)

\* BasicChatbotNode.process: an object with content and type is returned as it is.
basic_normalize(reply, first, n) ==
    IF reply.shape \in {"AIMessage", "message_like"}
    THEN Msg(IF reply.shape = "AIMessage" THEN "ai" ELSE "chat",
             Text(IF reply.has_calls THEN "" ELSE "answer"),
             IF reply.has_calls THEN CallIds(first, n) ELSE <<>>, 0, 0)
    ELSE IF reply.shape = "other" THEN AIMessage(Text("repr"), <<>>)
    ELSE AIMessage(Text("answer"), <<>>)

\* RAGChatbotNode.process: anything with a content attribute is rewrapped.
rag_normalize(reply, first, n) ==
    IF reply.shape = "AIMessage"
    THEN IF reply.has_calls THEN AIMessage(Text(""), CallIds(first, n))
         ELSE AIMessage(Text("answer"), <<>>)
    ELSE IF reply.shape = "message_like" THEN AIMessage(Text(IF reply.has_calls THEN "" ELSE "answer"), <<>>)
    ELSE IF reply.shape \in {"dict", "str"} THEN AIMessage(Text("answer"), <<>>)
    ELSE AIMessage(Text("repr"), <<>>)

(***************************************************************************)
(* MoodDetectionNode.                                                      *)
(***************************************************************************)
Max(a, b) == IF a >= b THEN a ELSE b

IsHuman(m) == m.type = "human"

recent_messages_of_humans(msgs) ==
    LET h == SelectSeq(msgs, IsHuman)
        l == SubSeq(h, Max(1, Len(h) - 2), Len(h))
    IN [i \in DOMAIN l |-> l[i].content]

\* _detect_mood_from_conversation: the contents of the human messages among
\* messages[-3:], oldest first.
recent_messages(msgs) ==
    LET last3 == SubSeq(msgs, Max(1, Len(msgs) - 2), Len(msgs))
        h == SelectSeq(last3, IsHuman)
    IN [i \in DOMAIN h |-> h[i].content]

\* A mood that is None or empty.
NoMood == ""

\* What the health data file may hold, and what a write puts there.
StoredMoods == {"", "happy", "Sad"}

valid_moods == <<"Happy", "Sad", "Surprised", "Angry">>

\* str.capitalize and str.lower on the mood strings.
capitalize(m) ==
    CASE m \in {"happy", "Happy"} -> "Happy"
      [] m \in {"sad", "Sad"} -> "Sad"
      [] OTHER -> m

lower(m) ==
    CASE m \in {"happy", "Happy"} -> "happy"
      [] m \in {"sad", "Sad"} -> "sad"
      [] OTHER -> m

HasTool(ts, name) == \E i \in DOMAIN ts : ts[i] = name

ReadOutcomes == {"ok", "unparsable", "raises"}

\* _get_current_mood: the capitalized mood of the store, or None when the
\* health_get_mood tool is missing, raises, or answers something unusable.
get_current_mood(ts, outcome, stored) ==
    IF HasTool(ts, <<"health", "get", "mood">>) /\ outcome = "ok"
    THEN capitalize(stored)
    ELSE NoMood

\* The first word of a classifier reply, by the valid moods it contains.
MoodReplies == SUBSET {"Happy", "Sad"}

\* The first of valid_moods found in the reply, or None.
mood_of_reply(reply) ==
    LET found == {i \in DOMAIN valid_moods : valid_moods[i] \in reply}
    IN IF found = {} THEN NoMood
       ELSE valid_moods[CHOOSE i \in found : \A j \in found : i <= j]

\* A word is the tuple of its characters; a classifier reply is the list
\* str.split() makes of it.
W_Happy == <<"H", "a", "p", "p", "y">>
W_happy == <<"h", "a", "p", "p", "y">>
W_SAD == <<"S", "A", "D">>
W_None == <<"N", "o", "n", "e">>
W_Unhappy == <<"U", "n", "h", "a", "p", "p", "y">>
W_HappyDot == <<"H", "a", "p", "p", "y", ".">>
W_Angry == <<"A", "n", "g", "r", "y">>
W_Surprised == <<"S", "u", "r", "p", "r", "i", "s", "e", "d">>
W_I == <<"I">>

ReplyWords == {W_Happy, W_happy, W_SAD, W_None, W_Unhappy, W_HappyDot, W_Angry,
               W_Surprised, W_I}

\* str.lower on a word.
lower_word(w) ==
    LET low(c) == CASE c = "A" -> "a" [] c = "D" -> "d" [] c = "H" -> "h"
                    [] c = "I" -> "i" [] c = "N" -> "n" [] c = "S" -> "s"
                    [] c = "U" -> "u" [] OTHER -> c
    IN [i \in DOMAIN w |-> low(w[i])]

\* valid_mood.lower() for each of valid_moods.
mood_word(m) ==
    CASE m = "Happy" -> W_happy
      [] m = "Sad" -> lower_word(W_SAD)
      [] m = "Surprised" -> lower_word(W_Surprised)
      [] m = "Angry" -> lower_word(W_Angry)

\* mood_text.split()[0] if mood_text.split() else ""
first_word(reply) == IF reply = <<>> THEN <<>> ELSE reply[1]

\* Python's `sub in w` on strings.
word_in(sub, w) ==
    \E i \in 0..(Len(w) - Len(sub)) : SubSeq(w, i + 1, i + Len(sub)) = sub

\* The valid moods the for loop would match on the first word.
moods_in_reply(reply) ==
    {valid_moods[i] : i \in {j \in DOMAIN valid_moods :
        word_in(mood_word(valid_moods[j]), lower_word(first_word(reply)))}}

\* _detect_mood_from_conversation on the reply of the completion call.
detect_mood(reply) == mood_of_reply(moods_in_reply(reply))

same_mood_never(detected, current) == FALSE

\* process: current_mood and detected_mood.lower() == current_mood.lower()
same_mood(detected, current) ==
    current # NoMood /\ lower(detected) = lower(current)

WriteOutcomes == {"success", "failure", "raises"}

store_after_update_unwritten(stored, mood, outcome) == stored

\* HealthDataManager.update_mood: a saved update stores the capitalized mood.
store_after_update(stored, mood, outcome) ==
    IF outcome = "success" THEN capitalize(mood) ELSE stored

mood_next_pc_propagating(raised, next_pc) ==
    IF raised THEN "failed" ELSE next_pc

\* Each helper of the node catches what its tool or completion call raises.
mood_next_pc(raised, next_pc) == next_pc

NoRun ==
    [phase |-> "none", messages |-> <<>>, read_issued |-> FALSE, read_ok |-> FALSE,
     current_mood |-> NoMood, classified |-> FALSE, detected_mood |-> NoMood,
     write_issued |-> FALSE, mood_updated |-> FALSE, raised |-> FALSE]

\* What is left of a run's record once the chat node has started.
RunFinished == [NoRun EXCEPT !.phase = "finished"]

(***************************************************************************)
(* The chat node's loop.                                                   *)
(***************************************************************************)
HasSystem(msgs) == \E i \in DOMAIN msgs : msgs[i].type = "system"

system_prompt(n) ==
    IF n = "DoctorChatbotNode" THEN "doctor_system_prompt" ELSE "scout_system_prompt"

prepare_messages_always_prepending(msgs, ts, n) ==
    IF ts # <<>> THEN <<SystemMessage(Text(system_prompt(n)))>> \o msgs ELSE msgs

\* process, lines 58-69: the local copy, with the system prompt prepended.
prepare_messages(msgs, ts, n) ==
    IF ts # <<>> /\ ~HasSystem(msgs)
    THEN <<SystemMessage(Text(system_prompt(n)))>> \o msgs
    ELSE msgs

process_result_with_trace(msgs, resp) == msgs \o <<resp>>

\* return {"messages": [response]}
process_result(msgs, resp) == <<resp>>

loop_condition_inclusive(i) == i <= max_tool_iterations

\* while iteration < max_tool_iterations
loop_condition(i) == i < max_tool_iterations

\* ToolNode.ainvoke: one ToolMessage per call of the last AI message, in call order.
tool_node_twice(msgs) ==
    LET calls == msgs[Len(msgs)].tool_calls
    IN [j \in 1..(2 * Len(calls)) |-> ToolMessage(calls[((j - 1) % Len(calls)) + 1])]

tool_node_reversed(msgs) ==
    LET calls == msgs[Len(msgs)].tool_calls
    IN [j \in 1..Len(calls) |-> ToolMessage(calls[Len(calls) + 1 - j])]

tool_node(msgs) ==
    LET calls == msgs[Len(msgs)].tool_calls
    IN [j \in 1..Len(calls) |-> ToolMessage(calls[j])]

\* Two coroutines are enough to interleave.
TaskIds == {"t1", "t2"}

\* The requests in flight and the application's lifespan.
Coroutines == TaskIds \cup {"lifespan"}

\* A coroutine that is not running.
NoTask == [pc |-> "idle"]

\* mcp_tools = None
NotLoaded == "None"

NotApplied == [op |-> "none"]

Init ==
    /\ pc = "idle"
    /\ use_case = "none"
    /\ node = "none"
    /\ graph = "none"
    /\ tools = <<>>
    /\ state_messages = <<>>
    /\ messages = <<>>
    /\ iteration = 0
    /\ response = NoMsg
    /\ result = <<>>
    /\ output = <<>>
    /\ llm_calls = 0
    /\ tool_batches = 0
    /\ batch_size = 1
    /\ next_call_id = 1
    /\ error = "none"
    /\ llm_raised = FALSE
    /\ retrieval_cache = <<>>
    /\ rag_initialized = FALSE
    /\ rag_results = <<>>
    /\ rag_queries = 0
    /\ rag_call = NoCall
    /\ rag_prev = NoCall
    /\ applied = NotApplied
    /\ mood_node_tools = <<>>
    /\ mood_store = ""
    /\ mood_run = NoRun
    /\ mood_prev = NoRun
    /\ tasks = [t \in Coroutines |-> NoTask]
    /\ mcp_tools = NotLoaded
    /\ loader_calls = 0
    /\ session_store = <<>>

turn_vars == <<pc, use_case, node, tools, state_messages, messages, iteration,
               response, result, output, llm_calls, tool_batches, batch_size,
               next_call_id, error, llm_raised, graph, rag_results, rag_queries,
               rag_call>>

mood_vars == <<mood_node_tools, mood_store, mood_run, mood_prev>>

task_vars == <<tasks, mcp_tools, loader_calls, session_store>>

rag_vars == <<retrieval_cache, rag_initialized, rag_results, rag_queries,
              rag_call, rag_prev>>

\* chat_simple: GraphBuilder.setup_graph(use_case), then graph.ainvoke(state).
chat_turn(usecase, ts, conv, k) ==
    /\ pc = "idle"
    /\ use_case' = usecase
    /\ LET entry == setup_graph(usecase)
       IN IF entry = "ValueError"
          THEN /\ pc' = "failed"
               /\ error' = "ValueError"
               /\ UNCHANGED <<node, graph, tools, state_messages, batch_size>>
          ELSE /\ pc' = entry
               /\ graph' = usecase
               /\ node' = IF entry = "chatbot" THEN "BasicChatbotNode" ELSE "MCPChatbotNode"
               /\ tools' = IF entry = "chatbot" THEN <<>> ELSE chatbot_tools(ts)
               /\ state_messages' = add_messages(<<>>, conv)
               /\ batch_size' = k
               /\ UNCHANGED error
    /\ mood_node_tools' = IF setup_graph(usecase) = "mood_detection"
                          THEN mood_tools(ts) ELSE <<>>
    /\ UNCHANGED <<messages, iteration, response, result, output, llm_calls,
                   tool_batches, next_call_id, llm_raised>>
    /\ UNCHANGED rag_vars
    /\ UNCHANGED applied
    /\ UNCHANGED task_vars
    /\ UNCHANGED <<mood_store, mood_run, mood_prev>>

\* doctor_chatbot_build_graph on a fresh StateGraph, then graph.ainvoke(state).
doctor_turn(ts, conv, k) ==
    /\ pc = "idle"
    /\ graph' = "doctor_chatbot"
    /\ node' = "DoctorChatbotNode"
    /\ tools' = ts
    /\ state_messages' = add_messages(<<>>, conv)
    /\ batch_size' = k
    /\ pc' = "chatbot"
    /\ UNCHANGED <<use_case, messages, iteration, response, result, output,
                   llm_calls, tool_batches, next_call_id, error, llm_raised>>
    /\ UNCHANGED rag_vars
    /\ UNCHANGED applied
    /\ UNCHANGED task_vars
    /\ UNCHANGED mood_vars

\* MoodDetectionNode.process up to the mood read.  No messages: the state is
\* returned at once.  The store holds whatever the health data file holds when
\* it is read.
mood_get_current(outcome, stored) ==
    /\ pc = "mood_detection"
    /\ IF state_messages = <<>>
       THEN /\ mood_run' = [NoRun EXCEPT !.phase = "returned"]
            /\ pc' = "mood_done"
            /\ UNCHANGED mood_store
       ELSE LET issued == HasTool(mood_node_tools, <<"health", "get", "mood">>)
                raised == issued /\ outcome = "raises"
            IN /\ mood_store' = stored
               /\ mood_run' = [NoRun EXCEPT
                      !.phase = "read",
                      !.messages = state_messages,
                      !.read_issued = issued,
                      !.read_ok = issued /\ outcome = "ok",
                      !.current_mood = get_current_mood(mood_node_tools, outcome, stored),
                      !.raised = raised]
               /\ pc' = mood_next_pc(raised, "mood_classify")
    /\ UNCHANGED <<mood_node_tools, mood_prev>>
    /\ UNCHANGED <<use_case, node, graph, tools, state_messages, messages,
                   iteration, response, result, output, llm_calls, tool_batches,
                   batch_size, next_call_id, error, llm_raised>>
    /\ UNCHANGED rag_vars
    /\ UNCHANGED applied
    /\ UNCHANGED task_vars

\* _detect_mood_from_conversation, then the comparison with the current mood.
mood_detect(raises, reply) ==
    /\ pc = "mood_classify"
    /\ LET called == recent_messages(state_messages) # <<>>
           raised == called /\ raises
           detected == IF called /\ ~raises THEN mood_of_reply(reply) ELSE NoMood
           skip == detected = NoMood \/ same_mood(detected, mood_run.current_mood)
       IN /\ mood_run' = [mood_run EXCEPT
                 !.phase = IF skip THEN "returned" ELSE "classified",
                 !.classified = called,
                 !.detected_mood = detected,
                 !.raised = @ \/ raised]
          /\ pc' = mood_next_pc(raised, IF skip THEN "mood_done" ELSE "mood_update")
    /\ UNCHANGED <<mood_node_tools, mood_store, mood_prev>>
    /\ UNCHANGED <<use_case, node, graph, tools, state_messages, messages,
                   iteration, response, result, output, llm_calls, tool_batches,
                   batch_size, next_call_id, error, llm_raised>>
    /\ UNCHANGED rag_vars
    /\ UNCHANGED applied
    /\ UNCHANGED task_vars

\* _update_mood_via_mcp and the flags process returns after it.
mood_update(outcome) ==
    /\ pc = "mood_update"
    /\ LET issued == HasTool(mood_node_tools, <<"health", "update", "mood">>)
           raised == issued /\ outcome = "raises"
       IN /\ mood_store' = IF issued
                           THEN store_after_update(mood_store, mood_run.detected_mood, outcome)
                           ELSE mood_store
          /\ mood_run' = [mood_run EXCEPT
                 !.phase = "returned",
                 !.write_issued = issued,
                 !.mood_updated = issued /\ outcome = "success",
                 !.raised = @ \/ raised]
          /\ pc' = mood_next_pc(raised, "mood_done")
    /\ UNCHANGED <<mood_node_tools, mood_prev>>
    /\ UNCHANGED <<use_case, node, graph, tools, state_messages, messages,
                   iteration, response, result, output, llm_calls, tool_batches,
                   batch_size, next_call_id, error, llm_raised>>
    /\ UNCHANGED rag_vars
    /\ UNCHANGED applied
    /\ UNCHANGED task_vars

returned_messages_with_flags(state_msgs, run) ==
    IF run.detected_mood # NoMood
    THEN Append(state_msgs, Msg("ai", Text(run.detected_mood), <<>>, 0, 0))
    ELSE state_msgs

\* The messages of the state process returns: state, or {**state, flags}.
returned_messages(state_msgs, run) == state_msgs

\* The graph merges what MoodDetectionNode.process returned into the state;
\* detected_mood and mood_updated are no channels of ChatbotState.
mood_detection ==
    /\ pc = "mood_done"
    /\ graph = "mcp_chatbot"
    /\ state_messages' = add_messages(state_messages,
                                      returned_messages(state_messages, mood_run))
    /\ pc' = "chatbot"
    /\ UNCHANGED <<use_case, node, graph, tools, messages, iteration, response,
                   result, output, llm_calls, tool_batches, batch_size,
                   next_call_id, error, llm_raised>>
    /\ UNCHANGED rag_vars
    /\ UNCHANGED applied
    /\ UNCHANGED task_vars
    /\ UNCHANGED mood_vars

\* MCPChatbotNode.process / DoctorChatbotNode.process up to the loop.  Of the
\* mood node's run the turn keeps that it ran and whether a step of it raised;
\* the mood file is not looked at again.
process_begin ==
    /\ pc = "chatbot"
    /\ node \in {"MCPChatbotNode", "DoctorChatbotNode"}
    /\ messages' = prepare_messages(state_messages, tools, node)
    /\ iteration' = 0
    /\ pc' = "loop"
    /\ mood_run' = IF mood_run = NoRun THEN NoRun
                   ELSE [RunFinished EXCEPT !.raised = mood_run.raised]
    /\ mood_store' = ""
    /\ UNCHANGED <<use_case, node, graph, tools, state_messages, response, result,
                   output, llm_calls, tool_batches, batch_size, next_call_id, error,
                   llm_raised>>
    /\ UNCHANGED rag_vars
    /\ UNCHANGED applied
    /\ UNCHANGED task_vars
    /\ UNCHANGED <<mood_node_tools, mood_prev>>

\* The reply is normalized; a reply with tool calls is appended to messages,
\* any other reply is returned.
llm_reply(reply) ==
    LET r == normalize(reply, next_call_id, batch_size)
    IN /\ response' = r
       /\ IF r.tool_calls # <<>>
          THEN /\ messages' = Append(messages, r)
               /\ next_call_id' = next_call_id + batch_size
               /\ pc' = IF tools # <<>> THEN "tools" ELSE "loop"
               /\ UNCHANGED result
          ELSE /\ result' = process_result(messages, r)
               /\ pc' = "returned"
               /\ UNCHANGED <<messages, next_call_id>>
       /\ UNCHANGED <<error, llm_raised>>

llm_invoke_retrying(raises, reply) ==
    /\ pc = "loop"
    /\ loop_condition(iteration)
    /\ iteration' = iteration + 1
    /\ llm_calls' = llm_calls + 1
    /\ IF raises
       THEN /\ llm_raised' = TRUE
            /\ UNCHANGED <<pc, error, messages, response, result, next_call_id>>
       ELSE llm_reply(reply)
    /\ UNCHANGED <<use_case, node, graph, tools, state_messages, output,
                   tool_batches, batch_size>>
    /\ UNCHANGED rag_vars
    /\ UNCHANGED applied
    /\ UNCHANGED task_vars
    /\ UNCHANGED mood_vars

\* One pass of the loop body up to the tool execution: self.llm.invoke(messages)
\* is not guarded, so what it raises leaves process.
llm_invoke(raises, reply) ==
    /\ pc = "loop"
    /\ loop_condition(iteration)
    /\ iteration' = iteration + 1
    /\ llm_calls' = llm_calls + 1
    /\ IF raises
       THEN /\ pc' = "failed"
            /\ error' = "CompletionError"
            /\ llm_raised' = TRUE
            /\ UNCHANGED <<messages, response, result, next_call_id>>
       ELSE llm_reply(reply)
    /\ UNCHANGED <<use_case, node, graph, tools, state_messages, output,
                   tool_batches, batch_size>>
    /\ UNCHANGED rag_vars
    /\ UNCHANGED applied
    /\ UNCHANGED task_vars
    /\ UNCHANGED mood_vars

\* await self.tool_node.ainvoke({"messages": messages}); messages.extend(...).
tool_node_ainvoke ==
    /\ pc = "tools"
    /\ messages' = messages \o tool_node(messages)
    /\ tool_batches' = tool_batches + 1
    /\ pc' = "loop"
    /\ UNCHANGED <<use_case, node, graph, tools, state_messages, iteration,
                   response, result, output, llm_calls, batch_size, next_call_id,
                   error, llm_raised>>
    /\ UNCHANGED rag_vars
    /\ UNCHANGED applied
    /\ UNCHANGED task_vars
    /\ UNCHANGED mood_vars

\* The loop ran max_tool_iterations times: return the last response.
process_exhausted ==
    /\ pc = "loop"
    /\ ~loop_condition(iteration)
    /\ result' = process_result(messages, response)
    /\ pc' = "returned"
    /\ UNCHANGED <<use_case, node, graph, tools, state_messages, messages,
                   iteration, response, output, llm_calls, tool_batches,
                   batch_size, next_call_id, error, llm_raised>>
    /\ UNCHANGED rag_vars
    /\ UNCHANGED applied
    /\ UNCHANGED task_vars
    /\ UNCHANGED mood_vars

\* BasicChatbotNode.process.
basic_process_invoking_twice(raises, reply) ==
    /\ pc = "chatbot"
    /\ node = "BasicChatbotNode"
    /\ llm_calls' = llm_calls + 2
    /\ IF raises
       THEN /\ pc' = "failed"
            /\ error' = "CompletionError"
            /\ llm_raised' = TRUE
            /\ UNCHANGED <<response, result, next_call_id>>
       ELSE LET r == basic_normalize(reply, next_call_id, batch_size)
            IN /\ response' = r
               /\ result' = <<r>>
               /\ next_call_id' = next_call_id + Len(r.tool_calls)
               /\ pc' = "returned"
               /\ UNCHANGED <<error, llm_raised>>
    /\ UNCHANGED <<use_case, node, graph, tools, state_messages, messages,
                   iteration, output, tool_batches, batch_size>>
    /\ UNCHANGED rag_vars
    /\ UNCHANGED applied
    /\ UNCHANGED task_vars
    /\ UNCHANGED mood_vars

basic_process(raises, reply) ==
    /\ pc = "chatbot"
    /\ node = "BasicChatbotNode"
    /\ llm_calls' = llm_calls + 1
    /\ IF raises
       THEN /\ pc' = "failed"
            /\ error' = "CompletionError"
            /\ llm_raised' = TRUE
            /\ UNCHANGED <<response, result, next_call_id>>
       ELSE LET r == basic_normalize(reply, next_call_id, batch_size)
            IN /\ response' = r
               /\ result' = <<r>>
               /\ next_call_id' = next_call_id + Len(r.tool_calls)
               /\ pc' = "returned"
               /\ UNCHANGED <<error, llm_raised>>
    /\ UNCHANGED <<use_case, node, graph, tools, state_messages, messages,
                   iteration, output, tool_batches, batch_size>>
    /\ UNCHANGED rag_vars
    /\ UNCHANGED applied
    /\ UNCHANGED task_vars
    /\ UNCHANGED mood_vars

\* graph.ainvoke returns the channel after the node's update went through add_messages.
graph_return ==
    /\ pc = "returned"
    /\ graph # "none"
    /\ output' = add_messages(state_messages, result)
    /\ pc' = "done"
    /\ UNCHANGED <<use_case, node, graph, tools, state_messages, messages,
                   iteration, response, result, llm_calls, tool_batches,
                   batch_size, next_call_id, error, llm_raised>>
    /\ UNCHANGED rag_vars
    /\ UNCHANGED applied
    /\ UNCHANGED task_vars
    /\ UNCHANGED mood_vars

\* The next request starts from a fresh graph and fresh locals.
turn_end ==
    /\ pc \in {"done", "failed"}
    /\ pc' = "idle"
    /\ use_case' = "none"
    /\ node' = "none"
    /\ graph' = "none"
    /\ tools' = <<>>
    /\ state_messages' = <<>>
    /\ messages' = <<>>
    /\ iteration' = 0
    /\ response' = NoMsg
    /\ result' = <<>>
    /\ output' = <<>>
    /\ llm_calls' = 0
    /\ tool_batches' = 0
    /\ batch_size' = 1
    /\ next_call_id' = 1
    /\ error' = "none"
    /\ llm_raised' = FALSE
    /\ rag_results' = <<>>
    /\ rag_queries' = 0
    /\ retrieval_cache' = <<>>
    /\ rag_initialized' = FALSE
    /\ rag_call' = NoCall
    /\ mood_node_tools' = <<>>
    /\ mood_store' = ""
    /\ mood_run' = NoRun
    /\ UNCHANGED mood_prev
    /\ UNCHANGED rag_prev
    /\ UNCHANGED applied
    /\ UNCHANGED task_vars

(***************************************************************************)
(* RAGChatbotNode.process, called on a state directly.                     *)
(***************************************************************************)
HumanIndexes(msgs) == {i \in DOMAIN msgs : msgs[i].type = "human"}

user_query_of_defaulting(msgs) ==
    IF HumanIndexes(msgs) = {} THEN "q1"
    ELSE msgs[MaxOf(HumanIndexes(msgs))].content.text

\* The content of the most recent human message; "" when there is none.
user_query_of(msgs) ==
    IF HumanIndexes(msgs) = {} THEN ""
    ELSE msgs[MaxOf(HumanIndexes(msgs))].content.text

\* The first system message's content, or the default prompt.
base_system_prompt_of(msgs) ==
    IF HasSystem(msgs)
    THEN msgs[CHOOSE i \in DOMAIN msgs :
                 /\ msgs[i].type = "system"
                 /\ \A j \in 1..(i - 1) : msgs[j].type # "system"].content
    ELSE Text("medi_mind_prompt")

\* Replace or add the system message with the augmented version.
replace_system_prepending(msgs, prompt) == <<SystemMessage(prompt)>> \o msgs

replace_system(msgs, prompt) ==
    IF HasSystem(msgs)
    THEN [i \in DOMAIN msgs |->
            IF msgs[i].type = "system" THEN SystemMessage(prompt) ELSE msgs[i]]
    ELSE <<SystemMessage(prompt)>> \o msgs

\* RAGChatbotNode(model) creates its own RAGIntegrationNode (lazy_init), then
\* process(state) is called.
after_augment_propagating(failure) ==
    IF failure \in {"init_raised", "ready_raised", "query_raised"} THEN "failed"
    ELSE "rag_llm"

\* Every retriever failure is caught before process reaches the completion call.
after_augment(failure) == "rag_llm"

MaxRagConvLen == 3

\* The states RAGChatbotNode.process is called on.
RagConversations == UNION {[1..n -> MessageAlphabet] : n \in 0..MaxRagConvLen}

rag_turn(conv, k) ==
    /\ pc = "idle"
    /\ node' = "RAGChatbotNode"
    /\ state_messages' = conv
    /\ batch_size' = k
    /\ retrieval_cache' = <<>>
    /\ rag_initialized' = FALSE
    /\ pc' = "chatbot"
    /\ UNCHANGED <<use_case, graph, tools, messages, iteration, response, result,
                   output, llm_calls, tool_batches, next_call_id, error,
                   llm_raised, rag_results, rag_queries, rag_call, rag_prev>>
    /\ UNCHANGED applied
    /\ UNCHANGED task_vars
    /\ UNCHANGED mood_vars

\* process up to the completion call: query extraction and augmentation.
rag_process_augment(env) ==
    /\ pc = "chatbot"
    /\ node = "RAGChatbotNode"
    /\ LET user_query == user_query_of(state_messages)
           base == base_system_prompt_of(state_messages)
       IN IF user_query # ""
          THEN LET a == augment_system_prompt(retrieval_cache, rag_initialized,
                                              user_query, base, DefaultNResults, env)
               IN /\ messages' = IF a.results # <<>>
                                 THEN replace_system(state_messages, a.prompt)
                                 ELSE state_messages
                  /\ rag_results' = a.results
                  /\ retrieval_cache' = a.cache
                  /\ rag_initialized' = a.initialized
                  /\ rag_queries' = rag_queries + 1
                  /\ rag_call' = [a.call EXCEPT !.prompt = a.prompt, !.base = base]
                  /\ pc' = after_augment(a.call.failure)
          ELSE /\ messages' = IF HasSystem(state_messages) THEN state_messages
                              ELSE <<SystemMessage(base)>> \o state_messages
               /\ pc' = "rag_llm"
               /\ UNCHANGED <<retrieval_cache, rag_initialized, rag_results,
                              rag_queries, rag_call>>
    /\ UNCHANGED rag_prev
    /\ UNCHANGED <<use_case, node, graph, tools, state_messages, iteration,
                   response, result, output, llm_calls, tool_batches, batch_size,
                   next_call_id, error, llm_raised>>
    /\ UNCHANGED applied
    /\ UNCHANGED task_vars
    /\ UNCHANGED mood_vars

\* The completion call; an exception is caught and returned as a message.
rag_llm_result(raises, reply) ==
    IF raises THEN AIMessage(Text("Error processing request"), <<>>)
    ELSE rag_normalize(reply, next_call_id, batch_size)

rag_llm_invoke(raises, reply) ==
    /\ pc = "rag_llm"
    /\ llm_calls' = llm_calls + 1
    /\ response' = rag_llm_result(raises, reply)
    /\ result' = <<response'>>
    /\ next_call_id' = next_call_id + Len(response'.tool_calls)
    /\ llm_raised' = (llm_raised \/ raises)
    /\ pc' = "returned"
    /\ UNCHANGED <<use_case, node, graph, tools, state_messages, messages,
                   iteration, output, tool_batches, batch_size, error>>
    /\ UNCHANGED rag_vars
    /\ UNCHANGED applied
    /\ UNCHANGED task_vars
    /\ UNCHANGED mood_vars

\* process returns its dict to the caller.
rag_return ==
    /\ pc = "returned"
    /\ graph = "none"
    /\ output' = result
    /\ pc' = "done"
    /\ UNCHANGED <<use_case, node, graph, tools, state_messages, messages,
                   iteration, response, result, llm_calls, tool_batches,
                   batch_size, next_call_id, error, llm_raised>>
    /\ UNCHANGED rag_vars
    /\ UNCHANGED applied
    /\ UNCHANGED task_vars
    /\ UNCHANGED mood_vars

\* pc is tested before an action's inputs are drawn.
Next ==
    \/ /\ pc = "idle"
       /\ \E usecase \in UseCases, ts \in ToolLists, conv \in Conversations,
             k \in 1..MaxCalls : chat_turn(usecase, ts, conv, k)
    \/ /\ pc = "idle"
       /\ \E ts \in ToolLists, conv \in Conversations, k \in 1..MaxCalls :
             doctor_turn(ts, conv, k)
    \/ /\ pc = "idle"
       /\ \E conv \in RagConversations, k \in 1..MaxCalls : rag_turn(conv, k)
    \/ /\ pc = "mood_detection"
       /\ \E outcome \in ReadOutcomes, stored \in StoredMoods :
             mood_get_current(outcome, stored)
    \/ /\ pc = "mood_classify"
       /\ \E raises \in BOOLEAN, reply \in MoodReplies : mood_detect(raises, reply)
    \/ /\ pc = "mood_update"
       /\ \E outcome \in WriteOutcomes : mood_update(outcome)
    \/ mood_detection
    \/ process_begin
    \/ /\ pc = "loop"
       /\ \E raises \in BOOLEAN, reply \in Replies : llm_invoke(raises, reply)
    \/ tool_node_ainvoke
    \/ process_exhausted
    \/ /\ pc = "chatbot"
       /\ \E raises \in BOOLEAN, reply \in Replies : basic_process(raises, reply)
    \/ graph_return
    \/ /\ pc = "chatbot"
       /\ \E env \in RetrieverOutcomes : rag_process_augment(env)
    \/ /\ pc = "rag_llm"
       /\ \E raises \in BOOLEAN, reply \in Replies : rag_llm_invoke(raises, reply)
    \/ rag_return
    \/ turn_end

Spec == Init /\ [][Next]_vars

(***************************************************************************)
(* One RAGIntegrationNode used for a sequence of retrievals: the cache and  *)
(* the initialized flag live as long as the node.                          *)
(***************************************************************************)
MaxRetrievals == 3

NResults == {2, DefaultNResults}

Thresholds == {DefaultThreshold, 50}

\* await node.retrieve_medical_context(query, n_results, similarity_threshold)
retrieve_call(query, n_results, similarity_threshold, env) ==
    /\ pc = "idle"
    /\ rag_queries < MaxRetrievals
    /\ rag_queries' = rag_queries + 1
    /\ LET r == retrieve_medical_context(retrieval_cache, rag_initialized, query,
                                         n_results, similarity_threshold, env)
       IN /\ retrieval_cache' = r.cache
          /\ rag_initialized' = r.initialized
          /\ rag_results' = r.docs
          /\ rag_call' = CallRecord(retrieval_cache, rag_initialized, query,
                                    n_results, similarity_threshold, env, r)
          /\ rag_prev' = rag_call
    /\ UNCHANGED <<pc, use_case, node, tools, state_messages, messages, iteration,
                   response, result, output, llm_calls, tool_batches, batch_size,
                   next_call_id, error, llm_raised, graph>>
    /\ UNCHANGED applied
    /\ UNCHANGED task_vars
    /\ UNCHANGED mood_vars

\* RAGIntegrationNode(lazy_init=True): an empty cache, nothing initialized.
new_node ==
    /\ pc = "idle"
    /\ rag_call # NoCall
    /\ retrieval_cache' = <<>>
    /\ rag_initialized' = FALSE
    /\ rag_results' = <<>>
    /\ rag_call' = NoCall
    /\ rag_prev' = NoCall
    /\ rag_queries' = 0
    /\ UNCHANGED <<pc, use_case, node, tools, state_messages, messages, iteration,
                   response, result, output, llm_calls, tool_batches, batch_size,
                   next_call_id, error, llm_raised, graph>>
    /\ UNCHANGED applied
    /\ UNCHANGED task_vars
    /\ UNCHANGED mood_vars

NextRag ==
    \/ \E query \in Queries, n_results \in NResults,
          similarity_threshold \in Thresholds, env \in RetrieverOutcomes :
         retrieve_call(query, n_results, similarity_threshold, env)
    \/ new_node

SpecRag == Init /\ [][NextRag]_vars

(***************************************************************************)
(* Properties of the tool-call loop and of a turn, checked under Spec.     *)
(***************************************************************************)
LoopNodes == {"MCPChatbotNode", "DoctorChatbotNode"}

\* process has returned after a completion call whose reply still asked for
\* tools: only a provider that asked for tools on every reply gets here.
ExhaustedReturn ==
    /\ node \in LoopNodes
    /\ pc \in {"returned", "done"}
    /\ response.tool_calls # <<>>

\* C1: the loop of MCPChatbotNode.process and DoctorChatbotNode.process never
\* makes more than max_tool_iterations (10) completion calls, and when every
\* reply asked for a tool call it returns after exactly 10 calls with the last
\* assistant message, which is not null.
C1_LoopBounded ==
    node \in LoopNodes =>
        /\ llm_calls <= max_tool_iterations
        /\ llm_calls = iteration
        /\ ExhaustedReturn =>
              /\ llm_calls = max_tool_iterations
              /\ response # NoMsg
              /\ response.type = "ai"
              /\ result = <<response>>

C1_Witness ==
    /\ ExhaustedReturn
    /\ node = "MCPChatbotNode"
    /\ pc = "returned"
    /\ llm_calls = max_tool_iterations
    /\ tool_batches = max_tool_iterations

\* C2: the conversation a graph returns has the input conversation as an exact
\* prefix, whatever the topology and the number of tool rounds.
C2_AppendOnly ==
    (pc = "done" /\ graph # "none") =>
        /\ Len(output) >= Len(state_messages)
        /\ SubSeq(output, 1, Len(state_messages)) = state_messages

C2_Witness ==
    /\ pc = "done"
    /\ graph = "mcp_chatbot"
    /\ tool_batches >= 1
    /\ Len(state_messages) = MaxConvLen
    /\ Len(output) > Len(state_messages)

\* The rounds of a trace made of complete rounds (an assistant message with
\* tool calls followed by one tool result per call, in call order); -1 for
\* any other sequence.
RECURSIVE TraceRounds(_)
TraceRounds(t) ==
    IF t = <<>> THEN 0
    ELSE LET a == Head(t)
             n == Len(a.tool_calls)
         IN IF /\ a.type = "ai"
               /\ n > 0
               /\ Len(t) >= n + 1
               /\ \A j \in 1..n : t[1 + j] = ToolMessage(a.tool_calls[j])
            THEN LET rest == TraceRounds(SubSeq(t, n + 2, Len(t)))
                 IN IF rest < 0 THEN -1 ELSE rest + 1
            ELSE -1

\* The messages the loop added to its running conversation.
LoopTrace ==
    LET p == prepare_messages(state_messages, tools, node)
    IN SubSeq(messages, Len(p) + 1, Len(messages))

\* C3 (as stated): after a tool call on iteration 1 and a plain answer on
\* iteration 2 the returned conversation has length input+3.
C3_TraceReturned ==
    (/\ pc = "done"
     /\ node \in LoopNodes
     /\ tools # <<>>
     /\ llm_calls = 2
     /\ tool_batches = 1
     /\ batch_size = 1) => Len(output) = Len(state_messages) + 3

\* C3: the conversation returned by a turn of the loop nodes is the input
\* followed by the final assistant message only; the tool-bearing assistant
\* messages and their tool results are, round by round and in order, in the
\* node's running conversation, and none of them is returned.
C3_FinalOnlyReturned ==
    (pc = "done" /\ node \in LoopNodes) =>
        /\ Len(output) = Len(state_messages) + 1
        /\ [output[Len(output)] EXCEPT !.id = 0] = response
        /\ \A i \in DOMAIN output :
              output[i].type = "tool" \/ output[i].tool_calls # <<>>
                  => i = Len(output) /\ ExhaustedReturn
        /\ tools # <<>> => TraceRounds(LoopTrace) = tool_batches

C3_Witness ==
    /\ pc = "done"
    /\ node = "MCPChatbotNode"
    /\ tools # <<>>
    /\ llm_calls = 2
    /\ tool_batches = 1
    /\ batch_size = 1
    /\ Len(LoopTrace) = 2
    /\ Len(output) = Len(state_messages) + 1

\* Every tool result has an earlier assistant message that asked for its call
\* id, and no other tool result answers the same call id.
ToolCallsMatched(conv) ==
    \A i \in DOMAIN conv :
        conv[i].type = "tool" =>
            /\ \E j \in 1..(i - 1) :
                  /\ conv[j].type = "ai"
                  /\ \E c \in DOMAIN conv[j].tool_calls :
                        conv[j].tool_calls[c] = conv[i].tool_call_id
            /\ \A k \in DOMAIN conv :
                  (k # i /\ conv[k].type = "tool")
                      => conv[k].tool_call_id # conv[i].tool_call_id

RepliedInOrder ==
    LET n == Len(response.tool_calls)
        at == Len(messages) - n
    IN /\ at >= 1
       /\ messages[at] = response
       /\ \A j \in 1..n : messages[at + j] = ToolMessage(response.tool_calls[j])

\* The loop is about to test its condition after a reply with tool calls.
AfterToolReply ==
    /\ node \in LoopNodes
    /\ pc = "loop"
    /\ iteration >= 1
    /\ response.tool_calls # <<>>

\* C5 (as stated): after every reply with tool calls the running conversation
\* holds that reply followed by one tool result per call, whatever the tool
\* list of the node, the empty list included.
C5_ResultPerCallAnyTools ==
    AfterToolReply => RepliedInOrder

\* C5: a node built with a non-empty tool list continues, after a reply with
\* tool calls, with that reply followed by exactly one tool result per call in
\* call order; a node built with no tools (tool_node is None) appends the reply
\* alone and no tool result.
C5_ResultPerCall ==
    AfterToolReply =>
        IF tools # <<>>
        THEN RepliedInOrder
        ELSE /\ messages[Len(messages)] = response
             /\ \A i \in DOMAIN messages :
                   messages[i].type = "tool" => i <= Len(state_messages)

C5_Witness ==
    /\ AfterToolReply
    /\ tools # <<>>
    /\ batch_size = 2
    /\ iteration = 2
    /\ RepliedInOrder

SupportedUseCases == {"basic_chatbot", "mcp_chatbot"}

RetrievalRaised ==
    rag_call.failure \in {"init_raised", "ready_raised", "query_raised"}

\* C10: when initialization, the readiness check or the retriever query raises,
\* augment_system_prompt returns the base prompt unchanged and no documents,
\* nothing is raised, and the turn goes on to the completion call with the
\* conversation it received.
C10_RetrievalNeverRaises ==
    (node = "RAGChatbotNode" /\ RetrievalRaised) =>
        /\ rag_call.prompt = rag_call.base
        /\ rag_call.docs = <<>>
        /\ rag_results = <<>>
        /\ messages = state_messages
        /\ error = "none"
        /\ pc \in {"rag_llm", "returned", "done"}
        /\ pc = "rag_llm" => ENABLED (\E raises \in BOOLEAN, reply \in Replies :
                                         rag_llm_invoke(raises, reply))
        /\ pc # "rag_llm" => llm_calls = 1

C10_Witness ==
    /\ node = "RAGChatbotNode"
    /\ rag_call.failure = "query_raised"
    /\ rag_call.queried
    /\ pc = "returned"
    /\ llm_calls = 1
    /\ ~llm_raised

(***************************************************************************)
(* Properties of retrieve_medical_context, checked under SpecRag.          *)
(***************************************************************************)
\* Two consecutive calls on one node with the same arguments, both ready and
\* neither raising.
SameRetrievalTwice ==
    /\ rag_prev # NoCall
    /\ rag_call # NoCall
    /\ rag_call.query = rag_prev.query
    /\ rag_call.n_results = rag_prev.n_results
    /\ rag_call.similarity_threshold = rag_prev.similarity_threshold
    /\ rag_prev.failure = "none"
    /\ rag_call.failure = "none"

RECURSIVE KeptDocuments(_, _)
KeptDocuments(raw, threshold) ==
    IF raw = <<>> THEN <<>>
    ELSE LET d == Head(raw)
             rest == KeptDocuments(Tail(raw), threshold)
         IN IF d.has_distance /\ 100 - d.distance >= threshold
            THEN <<d>> \o rest
            ELSE rest

\* The latest call missed the cache and nothing failed.
CacheMiss ==
    /\ rag_call # NoCall
    /\ ~rag_call.hit
    /\ rag_call.failure = "none"

\* C9 (as stated): on every cache miss the documents at or above the threshold
\* are returned in order and stored in the cache under (query, n_results).
C9_FilteredAlwaysStored ==
    CacheMiss =>
        LET key == cache_key(rag_call.query, rag_call.n_results)
        IN /\ rag_call.docs = KeptDocuments(rag_call.raw, rag_call.similarity_threshold)
           /\ key \in DOMAIN retrieval_cache
           /\ retrieval_cache[key] = rag_call.docs

\* C9: on a cache miss the call returns exactly the retrieved documents whose
\* similarity is at or above the threshold, in the retriever's order; when the
\* retriever returned at least one document that filtered list (not the raw
\* list) is stored under (query, n_results), and when it returned none nothing
\* is stored.
C9_ThresholdFiltering ==
    CacheMiss =>
        LET key == cache_key(rag_call.query, rag_call.n_results)
        IN /\ rag_call.docs = KeptDocuments(rag_call.raw, rag_call.similarity_threshold)
           /\ rag_results = rag_call.docs
           /\ IF rag_call.raw # <<>>
              THEN /\ key \in DOMAIN retrieval_cache
                   /\ retrieval_cache[key] = rag_call.docs
              ELSE key \notin DOMAIN retrieval_cache

C9_Witness ==
    /\ CacheMiss
    /\ rag_call.query = "q1"
    /\ rag_call.n_results = DefaultNResults
    /\ rag_call.similarity_threshold = DefaultThreshold
    /\ rag_call.raw = <<Doc("a", 10), Doc("b", 70), Doc("c", 90)>>
    /\ rag_call.docs = <<Doc("a", 10), Doc("b", 70)>>
    /\ retrieval_cache[cache_key("q1", DefaultNResults)] = rag_call.docs

(***************************************************************************)
(* The functions of graph construction, reply normalization and mood       *)
(* context, applied to drawn inputs.                                       *)
(***************************************************************************)
MaxToolListLen == 3

MaxMoodConvLen == 5

\* patient_search, patient (no prefix), health_update_mood, health_get_mood, multiply
ToolNames ==
    { <<"patient", "search">>, <<"patient">>, <<"health", "update", "mood">>,
      <<"health", "get", "mood">>, <<"multiply">> }

LoadedToolLists == UNION {[1..n -> ToolNames] : n \in 0..MaxToolListLen}

Roles == {"human", "ai", "tool"}

MessageTexts == <<"m1", "m2", "m3", "m4", "m5", "m6", "m7", "m8">>

\* Conversations of every role pattern; the i-th message has the i-th text.
RoleConversations ==
    { [i \in DOMAIN r |-> Msg(r[i], Text(MessageTexts[i]), <<>>, 0, 0)] :
        r \in UNION {[1..n -> Roles] : n \in 0..MaxMoodConvLen} }

ChatNodes == {"BasicChatbotNode", "MCPChatbotNode", "DoctorChatbotNode", "RAGChatbotNode"}

\* mcp_chatbot_build_graph(graph_builder, llm, tools=ts): the two tool lists.
build_graph_tools(ts) ==
    /\ pc = "idle"
    /\ applied' = [op |-> "mcp_chatbot_build_graph", tools |-> ts,
                   chatbot_tools |-> chatbot_tools(ts), mood_tools |-> mood_tools(ts)]
    /\ UNCHANGED <<turn_vars, rag_vars, mood_vars>>
    /\ UNCHANGED task_vars

\* The node's handling of one raw reply carrying k tool invocations.
normalize_reply(n, reply, k) ==
    /\ pc = "idle"
    /\ applied' = [op |-> "normalize", node |-> n, reply |-> reply, n_calls |-> k,
                   out |-> IF n = "BasicChatbotNode" THEN basic_normalize(reply, 1, k)
                           ELSE IF n = "RAGChatbotNode" THEN rag_normalize(reply, 1, k)
                           ELSE normalize(reply, 1, k)]
    /\ UNCHANGED <<turn_vars, rag_vars, mood_vars>>
    /\ UNCHANGED task_vars

\* _detect_mood_from_conversation(msgs) up to the classification prompt.
mood_context(msgs) ==
    /\ pc = "idle"
    /\ applied' = [op |-> "recent_messages", messages |-> msgs,
                   out |-> recent_messages(msgs)]
    /\ UNCHANGED <<turn_vars, rag_vars, mood_vars>>
    /\ UNCHANGED task_vars

MaxReplyWords == 2

ClassifierReplies == UNION {[1..n -> ReplyWords] : n \in 0..MaxReplyWords}

\* The mood read off one reply of the classifier.
parse_reply(reply) ==
    /\ pc = "idle"
    /\ applied' = [op |-> "detect_mood", reply |-> reply, out |-> detect_mood(reply)]
    /\ UNCHANGED <<turn_vars, rag_vars, mood_vars>>
    /\ UNCHANGED task_vars

\* document[:500]
PreviewChars == 500

MaxOverLimit == 2

\* A document is the tuple of its characters; the i-th character is i.
Document(n) == [i \in 1..n |-> i]

DocLengths == {0, 1} \cup ((PreviewChars - 1)..(PreviewChars + MaxOverLimit))

\* doc_preview = document[:500] if len(document) > 500 else document
doc_preview(document) ==
    IF Len(document) > PreviewChars THEN SubSeq(document, 1, PreviewChars)
    ELSE document

\* f"Content:\n{doc_preview}...": the preview, and whether "..." follows it.
content_part(document) == [preview |-> doc_preview(document), ellipsis |-> TRUE]

\* The content lines format_rag_context renders for one document.
render_content(n) ==
    /\ pc = "idle"
    /\ applied' = [op |-> "format_rag_context", document |-> Document(n),
                   out |-> content_part(Document(n))]
    /\ UNCHANGED <<turn_vars, rag_vars, mood_vars>>
    /\ UNCHANGED task_vars

NextFun ==
    \/ \E ts \in LoadedToolLists : build_graph_tools(ts)
    \/ \E n \in ChatNodes, reply \in Replies, k \in 1..MaxCalls : normalize_reply(n, reply, k)
    \/ \E msgs \in RoleConversations : mood_context(msgs)
    \/ \E reply \in ClassifierReplies : parse_reply(reply)
    \/ \E n \in DocLengths : render_content(n)

SpecFun == Init /\ [][NextFun]_vars

(***************************************************************************)
(* Properties of the functions, checked under SpecFun.                     *)
(***************************************************************************)
\* The elements of s at the indexes in K, in increasing index order.
RECURSIVE RestrictTo(_, _)
RestrictTo(s, K) ==
    IF K = {} THEN <<>>
    ELSE LET i == CHOOSE x \in K : \A y \in K : x <= y
         IN <<s[i]>> \o RestrictTo(s, K \ {i})

NamedPatient(t) == Len(t) >= 2 /\ Head(t) = "patient"

NamedUpdateMood(t) == t = <<"health", "update", "mood">>

GraphBuilt == applied.op = "mcp_chatbot_build_graph"

\* C16: for every loaded tool list, the chat node's tools are the loaded tools
\* that are neither health_update_mood nor named patient_..., and the mood
\* node's tools are the loaded tools not named patient_..., health_update_mood
\* included; both in the loaded order.
C16_CapabilityFiltering ==
    GraphBuilt =>
        LET ts == applied.tools
            c == applied.chatbot_tools
            m == applied.mood_tools
        IN /\ \A i \in DOMAIN c : ~NamedPatient(c[i]) /\ ~NamedUpdateMood(c[i])
           /\ \A i \in DOMAIN m : ~NamedPatient(m[i])
           /\ c = RestrictTo(ts, {i \in DOMAIN ts :
                                    ~NamedPatient(ts[i]) /\ ~NamedUpdateMood(ts[i])})
           /\ m = RestrictTo(ts, {i \in DOMAIN ts : ~NamedPatient(ts[i])})

C16_Witness ==
    /\ GraphBuilt
    /\ applied.tools = << <<"health", "update", "mood">>, <<"patient", "search">>,
                          <<"multiply">> >>
    /\ applied.chatbot_tools = << <<"multiply">> >>
    /\ applied.mood_tools = << <<"health", "update", "mood">>, <<"multiply">> >>

Normalized == applied.op = "normalize"

\* A reply that exposes tool invocations without being an AIMessage.
StructuredWithCalls ==
    /\ Normalized
    /\ applied.reply.has_calls
    /\ applied.reply.shape \in {"message_like", "dict"}

MoodContextBuilt == applied.op = "recent_messages"

HumanIndexesOf(msgs) == {i \in DOMAIN msgs : msgs[i].type = "human"}

ContentsOf(msgs) == [i \in DOMAIN msgs |-> msgs[i].content]

\* C20 (as stated): the classifier's input holds the contents of the 3 most
\* recent human messages, whatever is interleaved between them.
C20_LastThreeHumans ==
    MoodContextBuilt =>
        LET msgs == applied.messages
            H == HumanIndexesOf(msgs)
            K == {i \in H : Cardinality({j \in H : j > i}) < 3}
        IN applied.out = ContentsOf(RestrictTo(msgs, K))

\* C20: the classifier's input holds the contents of the human messages found
\* among the last 3 messages of the conversation (of any role), oldest first;
\* a human message further back is not collected even when fewer than 3 were
\* found.
C20_HumansOfLastThree ==
    MoodContextBuilt =>
        LET msgs == applied.messages
            K == {i \in HumanIndexesOf(msgs) : i > Len(msgs) - 3}
        IN /\ applied.out = ContentsOf(RestrictTo(msgs, K))
           /\ Len(applied.out) <= 3

C20_Witness ==
    /\ MoodContextBuilt
    /\ Len(applied.messages) = 5
    /\ HumanIndexesOf(applied.messages) = {1, 3, 5}
    /\ applied.out = <<Text("m3"), Text("m5")>>

(***************************************************************************)
(* Further properties of a turn, checked under Spec.                       *)
(***************************************************************************)
\* A RAGChatbotNode.process call on a conversation without a human message
\* has finished its augmentation step.
AugmentedWithoutHuman ==
    /\ node = "RAGChatbotNode"
    /\ pc \in {"rag_llm", "returned", "done"}
    /\ HumanIndexes(state_messages) = {}

\* C17 (as stated): without a human message the augmentation step makes no
\* retriever call and hands the conversation on unchanged.
C17_NoHumanUnchanged ==
    AugmentedWithoutHuman =>
        /\ rag_queries = 0
        /\ rag_call = NoCall
        /\ messages = state_messages

\* C17: without a human message the augmentation step makes no retriever
\* call; it hands the conversation on unchanged when a system message is
\* present, and otherwise puts the default system prompt in front of it.
C17_NoHumanNoRetrieval ==
    AugmentedWithoutHuman =>
        /\ rag_queries = 0
        /\ rag_call = NoCall
        /\ retrieval_cache = <<>>
        /\ messages = IF HasSystem(state_messages) THEN state_messages
                      ELSE <<SystemMessage(Text("medi_mind_prompt"))>> \o state_messages

C17_Witness ==
    /\ AugmentedWithoutHuman
    /\ pc = "returned"
    /\ state_messages = <<SystemMessage(Text("base_prompt"))>>
    /\ messages = state_messages
    /\ rag_queries = 0
    /\ llm_calls = 1

\* A turn of the basic topology whose reply carried no tool calls has
\* returned.
PlainTurnDone ==
    /\ pc = "done"
    /\ graph = "basic_chatbot"
    /\ response.tool_calls = <<>>

MoodToolLists == {mood_tools(ts) : ts \in ToolLists}

\* Conversations of human and assistant messages with a text.
MoodConversations ==
    {conv \in Conversations :
        \A i \in DOMAIN conv : /\ conv[i].type \in {"human", "ai"}
                                /\ conv[i].content # Text("")}

\* What the next run is compared with.
run_summary(run) ==
    [NoRun EXCEPT !.phase = run.phase, !.messages = run.messages,
                  !.detected_mood = run.detected_mood,
                  !.write_issued = run.write_issued,
                  !.mood_updated = run.mood_updated]

\* MoodDetectionNode(llm, tools) beside a health data file.
mood_node_new(ts, stored) ==
    /\ pc = "idle"
    /\ node' = "MoodDetectionNode"
    /\ mood_node_tools' = ts
    /\ mood_store' = stored
    /\ mood_run' = NoRun
    /\ mood_prev' = NoRun
    /\ UNCHANGED <<pc, use_case, graph, tools, state_messages, messages, iteration,
                   response, result, output, llm_calls, tool_batches, batch_size,
                   next_call_id, error, llm_raised>>
    /\ UNCHANGED rag_vars
    /\ UNCHANGED applied
    /\ UNCHANGED task_vars

\* await node.process({"messages": conv})
mood_process_call(conv) ==
    /\ pc = "idle"
    /\ node = "MoodDetectionNode"
    /\ state_messages' = conv
    /\ mood_prev' = run_summary(mood_run)
    /\ pc' = "mood_detection"
    /\ UNCHANGED <<use_case, node, graph, tools, messages, iteration, response,
                   result, output, llm_calls, tool_batches, batch_size,
                   next_call_id, error, llm_raised>>
    /\ UNCHANGED rag_vars
    /\ UNCHANGED applied
    /\ UNCHANGED task_vars
    /\ UNCHANGED <<mood_node_tools, mood_store, mood_run>>

\* process returns to its caller.
mood_process_return ==
    /\ pc = "mood_done"
    /\ graph = "none"
    /\ pc' = "idle"
    /\ UNCHANGED <<use_case, node, graph, tools, state_messages, messages, iteration,
                   response, result, output, llm_calls, tool_batches, batch_size,
                   next_call_id, error, llm_raised>>
    /\ UNCHANGED rag_vars
    /\ UNCHANGED applied
    /\ UNCHANGED task_vars
    /\ UNCHANGED mood_vars

NextMood ==
    \/ /\ pc = "idle"
       /\ \E ts \in MoodToolLists, stored \in StoredMoods : mood_node_new(ts, stored)
    \/ /\ pc = "idle"
       /\ \E conv \in MoodConversations : mood_process_call(conv)
    \/ /\ pc = "mood_detection"
       /\ \E outcome \in ReadOutcomes : mood_get_current(outcome, mood_store)
    \/ /\ pc = "mood_classify"
       /\ \E raises \in BOOLEAN, reply \in MoodReplies : mood_detect(raises, reply)
    \/ /\ pc = "mood_update"
       /\ \E outcome \in WriteOutcomes : mood_update(outcome)
    \/ mood_process_return

SpecMood == Init /\ [][NextMood]_vars

(***************************************************************************)
(* Claims about the mood node.                                             *)
(***************************************************************************)
MoodPcs == {"mood_detection", "mood_classify", "mood_update", "mood_done"}

\* Two finished runs of process, one after the other, on the same messages,
\* with the same answer of the classifier.
TwoRuns ==
    /\ pc = "idle"
    /\ mood_prev.phase = "returned"
    /\ mood_run.phase = "returned"
    /\ mood_prev.messages = mood_run.messages
    /\ mood_prev.detected_mood = mood_run.detected_mood

C12_UpdateOnlyOnChange ==
    /\ (/\ mood_run.detected_mood # NoMood
        /\ mood_run.current_mood # NoMood
        /\ lower(mood_run.detected_mood) = lower(mood_run.current_mood))
           => ~mood_run.write_issued
    /\ mood_run.write_issued =>
          /\ mood_run.detected_mood # NoMood
          /\ \/ mood_run.current_mood = NoMood
             \/ lower(mood_run.detected_mood) # lower(mood_run.current_mood)

C12_Witness ==
    /\ mood_run.phase = "returned"
    /\ mood_store = "happy"
    /\ mood_run.current_mood = "Happy"
    /\ mood_run.detected_mood = "Happy"
    /\ ~mood_run.write_issued

\* C13: no step of the mood node changes the messages of the state, whatever
\* it detected and whatever its update did, and the chat node prepares its
\* messages from the messages the mood node received.
C13_MessagesUntouched ==
    [][/\ pc \in MoodPcs => state_messages' = state_messages
       /\ (pc = "chatbot" /\ graph = "mcp_chatbot" /\ pc' = "loop") =>
             messages' = prepare_messages(mood_run.messages, tools, node)]_vars

C13_Witness ==
    /\ graph = "mcp_chatbot"
    /\ pc = "chatbot"
    /\ mood_run.mood_updated
    /\ mood_run.detected_mood = "Sad"
    /\ state_messages = mood_run.messages

\* C14: a mood read, a classification call or an update call that raises never
\* fails the turn: a turn of the mcp_chatbot graph fails only after the chat
\* node has started.
C14_MoodFailureCaught ==
    (graph = "mcp_chatbot" /\ pc = "failed") => mood_run.phase = "finished"

C14_Witness ==
    /\ graph = "mcp_chatbot"
    /\ mood_run.raised
    /\ pc = "done"
    /\ llm_calls >= 1

MoodParsed == applied.op = "detect_mood"

IsLabel(w) == \E i \in DOMAIN valid_moods : lower_word(w) = mood_word(valid_moods[i])

\* C21 as stated: a mood is detected only if the first word of the reply
\* equals, whatever its case, one of Happy, Sad, Surprised, Angry; any other
\* first word yields no mood.
C21_ExactLabelOnly ==
    MoodParsed => (applied.out # NoMood <=> IsLabel(first_word(applied.reply)))

\* A first word that is no label but contains one: a mood is detected.
C21_ContainedLabelDetected ==
    /\ MoodParsed
    /\ first_word(applied.reply) = W_Unhappy
    /\ applied.out = "Happy"

(***************************************************************************)
(* Claims about the augmented conversation.                                *)
(***************************************************************************)
\* process has replaced the system prompt by the augmented one.
AugmentationApplied ==
    /\ node = "RAGChatbotNode"
    /\ pc \in {"rag_llm", "returned", "done"}
    /\ rag_results # <<>>

IsSystem(m) == m.type = "system"

NotSystem(m) == m.type # "system"

SystemCount(msgs) == Len(SelectSeq(msgs, IsSystem))

\* Every system message of the input is replaced where it stands, or the
\* augmented one is put in front of an input without any; the other messages
\* are kept.
ReplacedInPlace ==
    /\ \A i \in DOMAIN messages :
          IsSystem(messages[i]) => messages[i] = SystemMessage(rag_call.prompt)
    /\ SelectSeq(messages, NotSystem) = SelectSeq(state_messages, NotSystem)
    /\ IF HasSystem(state_messages)
       THEN /\ Len(messages) = Len(state_messages)
            /\ \A i \in DOMAIN messages : IsSystem(messages[i]) <=> IsSystem(state_messages[i])
       ELSE messages = <<SystemMessage(rag_call.prompt)>> \o state_messages

\* C22 as stated: when augmentation applies the conversation holds exactly
\* one system message, the augmented one, and every other message unchanged
\* in its order.
C22_ExactlyOneSystem ==
    AugmentationApplied => (ReplacedInPlace /\ SystemCount(messages) = 1)

\* C22: when augmentation applies every system message of the input is
\* replaced by the augmented one (one is inserted at position 0 if there is
\* none) and every other message is kept in its order; the result holds
\* exactly one system message when the input held at most one.
C22_SystemReplaced ==
    AugmentationApplied =>
        /\ ReplacedInPlace
        /\ SystemCount(messages) = Max(1, SystemCount(state_messages))

C22_Witness ==
    /\ AugmentationApplied
    /\ state_messages = <<HumanMessage(Text("q1")), SystemMessage(Text("base_prompt"))>>
    /\ messages = <<state_messages[1], SystemMessage(rag_call.prompt)>>
    /\ messages # state_messages

(***************************************************************************)
(* Claims about the rendered context block.                                *)
(***************************************************************************)
ContentRendered == applied.op = "format_rag_context"

\* C23 as stated: the preview of a document is at most its first 500
\* characters, and the ellipsis follows it exactly when the document is longer
\* than 500 characters.
C23_EllipsisOnlyWhenTruncated ==
    ContentRendered =>
        /\ Len(applied.out.preview) <= PreviewChars
        /\ applied.out.preview = SubSeq(applied.document, 1, Len(applied.out.preview))
        /\ applied.out.ellipsis <=> Len(applied.document) > PreviewChars

\* A document shorter than the limit, rendered whole and followed by "...".
C23_ShortDocumentEllipsis ==
    /\ ContentRendered
    /\ Len(applied.document) = 1
    /\ applied.out.preview = applied.document
    /\ applied.out.ellipsis

(***************************************************************************)
(* Concurrent retrievals on one RAGIntegrationNode: a coroutine is         *)
(* suspended only in ensure_ready, at await rag_crawler.ensure_initialized. *)
(***************************************************************************)
RetrieveQueries == {"q1", "q2"}

\* retrieve_medical_context up to the await: the crawler is constructed if it
\* is not yet; a failing construction is caught and [] returned.
retrieve_begin(t, query, n_results, similarity_threshold, init_ok) ==
    /\ tasks[t].pc = "idle"
    /\ LET rdy == ensure_ready(rag_initialized,
                               RetrieverOutcome(init_ok, "true", TRUE))
       IN /\ rag_initialized' = rdy.initialized
          /\ tasks' = [tasks EXCEPT ![t] =
                IF rdy.ready = "raises" THEN NoTask
                ELSE [pc |-> "ensure_initialized", query |-> query,
                      n_results |-> n_results,
                      similarity_threshold |-> similarity_threshold]]
    /\ UNCHANGED <<retrieval_cache, rag_results, rag_queries, rag_call, rag_prev>>
    /\ UNCHANGED <<pc, use_case, node, tools, state_messages, messages, iteration,
                   response, result, output, llm_calls, tool_batches, batch_size,
                   next_call_id, error, llm_raised, graph>>
    /\ UNCHANGED applied
    /\ UNCHANGED mood_vars
    /\ UNCHANGED <<mcp_tools, loader_calls, session_store>>

\* The readiness check has answered: the rest of retrieve_medical_context runs
\* without another await and returns.
retrieve_resume(t, env) ==
    /\ tasks[t].pc = "ensure_initialized"
    /\ LET r == retrieve_medical_context(retrieval_cache, rag_initialized,
                                         tasks[t].query, tasks[t].n_results,
                                         tasks[t].similarity_threshold, env)
       IN /\ retrieval_cache' = r.cache
          /\ rag_results' = r.docs
    /\ tasks' = [tasks EXCEPT ![t] = NoTask]
    /\ UNCHANGED <<rag_initialized, rag_queries, rag_call, rag_prev>>
    /\ UNCHANGED <<pc, use_case, node, tools, state_messages, messages, iteration,
                   response, result, output, llm_calls, tool_batches, batch_size,
                   next_call_id, error, llm_raised, graph>>
    /\ UNCHANGED applied
    /\ UNCHANGED mood_vars
    /\ UNCHANGED <<mcp_tools, loader_calls, session_store>>

NextRetrieve ==
    \/ \E t \in TaskIds, query \in RetrieveQueries, n_results \in NResults,
          similarity_threshold \in Thresholds, init_ok \in BOOLEAN :
         retrieve_begin(t, query, n_results, similarity_threshold, init_ok)
    \/ \E t \in TaskIds, env \in RetrieverOutcomes : retrieve_resume(t, env)

SpecRetrieve == Init /\ [][NextRetrieve]_vars

KeyQueries == Queries \cup {"q1_2", "q"}

KeyNResults == NResults \cup {25}

\* No two (query, n_results) pairs have the same cache key.
KeysDistinct ==
    \A q1 \in KeyQueries, q2 \in KeyQueries, n1 \in KeyNResults, n2 \in KeyNResults :
        cache_key(q1, n1) = cache_key(q2, n2) => (q1 = q2 /\ n1 = n2)

\* C24: under every interleaving of concurrent retrieve_medical_context calls
\* an entry of the cache, once present, is never removed and never changed,
\* and distinct (query, n_results) pairs have distinct cache keys.
C24_CacheAdditive ==
    /\ [](KeysDistinct)
    /\ [][\A k \in DOMAIN retrieval_cache :
             /\ k \in DOMAIN retrieval_cache'
             /\ retrieval_cache'[k] = retrieval_cache[k]]_vars

\* Both coroutines are suspended on the same key with different thresholds
\* and the key is already cached.
C24_Witness ==
    /\ tasks["t1"].pc = "ensure_initialized"
    /\ tasks["t2"].pc = "ensure_initialized"
    /\ tasks["t1"].query = tasks["t2"].query
    /\ tasks["t1"].n_results = tasks["t2"].n_results
    /\ tasks["t1"].similarity_threshold # tasks["t2"].similarity_threshold
    /\ cache_key(tasks["t1"].query, tasks["t1"].n_results) \in DOMAIN retrieval_cache

(***************************************************************************)
(* Claims about the conversation the loop passes to the provider.          *)
(***************************************************************************)
\* At most one system message, and first if present.
SystemFirstOnly(msgs) ==
    /\ SystemCount(msgs) <= 1
    /\ HasSystem(msgs) => IsSystem(msgs[1])

\* C25: on an input with at most one system message, placed first, the
\* conversation of the loop holds at most one system message, placed first,
\* at every iteration; with tools bound and no system message in the input
\* exactly one, the node's system prompt, is in front of it.
C25_OneSystemFirst ==
    (/\ node \in LoopNodes
     /\ pc \in {"loop", "tools", "returned"}
     /\ SystemFirstOnly(state_messages))
        => /\ SystemFirstOnly(messages)
           /\ (tools # <<>> /\ ~HasSystem(state_messages)) =>
                 /\ SystemCount(messages) = 1
                 /\ messages[1] = SystemMessage(Text(system_prompt(node)))
           /\ (tools = <<>> \/ HasSystem(state_messages)) =>
                 SelectSeq(messages, IsSystem) = SelectSeq(state_messages, IsSystem)

C25_Witness ==
    /\ node = "MCPChatbotNode"
    /\ pc = "loop"
    /\ tools # <<>>
    /\ tool_batches >= 1
    /\ llm_calls >= 2
    /\ ~HasSystem(state_messages)
    /\ SystemCount(messages) = 1

(***************************************************************************)
(* Claims about the last tool batch.                                       *)
(***************************************************************************)
LoopReturned == node \in LoopNodes /\ pc \in {"returned", "done"}

\* C27 as stated: when the loop returns, every tool batch it executed has
\* been followed by a completion call that received the batch's tool
\* messages, the batch of the last iteration included.
C27_BatchResultsConsumed ==
    LoopReturned =>
        /\ tool_batches > 0 => llm_calls > tool_batches
        /\ messages # <<>> => messages[Len(messages)].type # "tool"

\* The loop returned at the ceiling with the tool messages of its last batch
\* at the end of the conversation.
C27_LastBatchDropped ==
    /\ LoopReturned
    /\ llm_calls = max_tool_iterations
    /\ tool_batches = max_tool_iterations
    /\ messages[Len(messages)].type = "tool"
    /\ response.tool_calls # <<>>

(***************************************************************************)
(* Claims about the threshold of a call served from the cache.             *)
(***************************************************************************)
MeetsThreshold(doc, similarity_threshold) ==
    doc.has_distance /\ similarity(doc.distance) >= similarity_threshold

\* C28 as stated: every document retrieve_medical_context returns has a
\* similarity of at least the threshold of that call, also when the list
\* comes from a cache entry written under another threshold.
C28_ReturnedMeetThreshold ==
    \A i \in DOMAIN rag_call.docs :
        MeetsThreshold(rag_call.docs[i], rag_call.similarity_threshold)

\* A call served from the entry an earlier call with a lower threshold wrote,
\* returning a document below its own threshold.
C28_StaleThresholdServed ==
    /\ rag_call.hit
    /\ rag_prev.query = rag_call.query
    /\ rag_prev.n_results = rag_call.n_results
    /\ rag_prev.similarity_threshold < rag_call.similarity_threshold
    /\ \E i \in DOMAIN rag_call.docs :
          ~MeetsThreshold(rag_call.docs[i], rag_call.similarity_threshold)

(***************************************************************************)
(* The server of main.py.  The lifespan calls load_mcp_tools twice before  *)
(* the first request is served (directly, then through                     *)
(* initialize_chatbot); then chat and reset requests run as coroutines,    *)
(* suspended at their awaits.                                              *)
(***************************************************************************)
MaxLoads == 4

MaxTurns == 2

\* session_key = f"{session_id}::{use_case}"
SessionKeys == {"default::mcp_chatbot", "s1::mcp_chatbot"}

\* What the loader of mcp_chatbot_node returns: a list ending with multiply.
LoadedTools == {ts \in ToolLists : ts # <<>> /\ ts[Len(ts)] = <<"multiply">>}

use_cache_never(cached) == FALSE

\* if mcp_tools is not None: return mcp_tools
use_cache(cached) == cached # NotLoaded

\* The messages stored for a session key.
History(store, key) == IF key \in DOMAIN store THEN store[key] ELSE <<>>

\* A coroutine about to call load_mcp_tools.
AtLoad(t) ==
    IF t = "lifespan"
    THEN tasks[t].pc = "idle" /\ pc \in {"idle", "initialize_chatbot"}
    ELSE tasks[t].pc = "load_tools_for_use_case"

\* The caller has its tool list: the lifespan moves on, a request goes on to
\* build its graph.
after_load(t) ==
    IF t # "lifespan" THEN pc
    ELSE IF pc = "idle" THEN "initialize_chatbot" ELSE "serving"

Loaded(t, out, cached) ==
    IF t = "lifespan"
    THEN [pc |-> "idle", out |-> out, cached |-> cached]
    ELSE [pc |-> "setup_graph", key |-> tasks[t].key, out |-> out, cached |-> cached]

\* What a finished request leaves: the exception that ended it ("none" when
\* it returned its response) and the status of the HTTP answer.
Finished(key, raised) ==
    [pc |-> "idle", key |-> key, raised |-> raised,
     status |-> IF raised = "none" THEN "success" ELSE "failed"]

\* chat_simple up to its first await; an unsupported provider fails it.
chat_simple(t, key, provider_ok) ==
    /\ pc = "serving"
    /\ tasks[t].pc = "idle"
    /\ Len(History(session_store, key)) < 2 * MaxTurns
    /\ tasks' = [tasks EXCEPT ![t] =
                    IF provider_ok
                    THEN [pc |-> "load_tools_for_use_case", key |-> key]
                    ELSE Finished(key, "HTTPException")]
    /\ UNCHANGED <<pc, mcp_tools, loader_calls, session_store>>
    /\ UNCHANGED <<use_case, node, tools, state_messages, messages, iteration,
                   response, result, output, llm_calls, tool_batches, batch_size,
                   next_call_id, error, llm_raised, graph>>
    /\ UNCHANGED rag_vars
    /\ UNCHANGED applied
    /\ UNCHANGED mood_vars

\* load_mcp_tools up to its await: the cached list is returned, or the loader
\* of mcp_chatbot_node is called.
load_mcp_tools_call(t) ==
    /\ AtLoad(t)
    /\ IF use_cache(mcp_tools)
       THEN /\ tasks' = [tasks EXCEPT ![t] = Loaded(t, mcp_tools, TRUE)]
            /\ pc' = after_load(t)
            /\ UNCHANGED loader_calls
       ELSE /\ loader_calls < MaxLoads
            /\ loader_calls' = loader_calls + 1
            /\ tasks' = [tasks EXCEPT ![t] = [@ EXCEPT !.pc = "load_tools"]]
            /\ UNCHANGED pc
    /\ UNCHANGED <<mcp_tools, session_store>>
    /\ UNCHANGED <<use_case, node, tools, state_messages, messages, iteration,
                   response, result, output, llm_calls, tool_batches, batch_size,
                   next_call_id, error, llm_raised, graph>>
    /\ UNCHANGED rag_vars
    /\ UNCHANGED applied
    /\ UNCHANGED mood_vars

\* The loader has answered: its list is stored and returned, or its
\* exception is caught and [] returned.
load_mcp_tools_resume(t, raises, ts) ==
    /\ tasks[t].pc = "load_tools"
    /\ mcp_tools' = IF raises THEN mcp_tools ELSE ts
    /\ tasks' = [tasks EXCEPT ![t] = Loaded(t, IF raises THEN <<>> ELSE ts, FALSE)]
    /\ pc' = after_load(t)
    /\ UNCHANGED <<loader_calls, session_store>>
    /\ UNCHANGED <<use_case, node, tools, state_messages, messages, iteration,
                   response, result, output, llm_calls, tool_batches, batch_size,
                   next_call_id, error, llm_raised, graph>>
    /\ UNCHANGED rag_vars
    /\ UNCHANGED applied
    /\ UNCHANGED mood_vars

\* chat_simple from setup_graph to graph.ainvoke: a graph that cannot be built
\* fails the request; otherwise the session's list is created if missing and
\* the state is built from it.
chat_setup_graph(t, raises) ==
    /\ tasks[t].pc = "setup_graph"
    /\ LET key == tasks[t].key
       IN IF raises
          THEN /\ tasks' = [tasks EXCEPT ![t] = Finished(key, "ValueError")]
               /\ UNCHANGED session_store
          ELSE /\ tasks' = [tasks EXCEPT ![t] = [pc |-> "ainvoke", key |-> key]]
               /\ session_store' =
                     [k \in DOMAIN session_store \cup {key} |-> History(session_store, k)]
    /\ UNCHANGED <<pc, mcp_tools, loader_calls>>
    /\ UNCHANGED <<use_case, node, tools, state_messages, messages, iteration,
                   response, result, output, llm_calls, tool_batches, batch_size,
                   next_call_id, error, llm_raised, graph>>
    /\ UNCHANGED rag_vars
    /\ UNCHANGED applied
    /\ UNCHANGED mood_vars

\* The exchange of one turn: user_msg and the assistant message built from
\* the graph's last message.
user_msg == HumanMessage(Text("q1"))

response_text == Text("answer")

after_ainvoke_user_first(store, key, raises) ==
    IF key \notin DOMAIN store
    THEN [raised |-> "KeyError", store |-> store]
    ELSE IF raises
    THEN [raised |-> "GraphError", store |-> [store EXCEPT ![key] = Append(@, user_msg)]]
    ELSE [raised |-> "none",
          store |-> [store EXCEPT ![key] =
                       @ \o <<user_msg, AIMessage(response_text, <<>>)>>]]

\* The lines after `result = await graph.ainvoke(state)`: an exception of the
\* graph run skips them; otherwise session_store[session_key] is looked up
\* (KeyError when the key is gone) and user_msg, then the assistant message,
\* are appended.
after_ainvoke(store, key, raises) ==
    IF raises THEN [raised |-> "GraphError", store |-> store]
    ELSE IF key \notin DOMAIN store
    THEN [raised |-> "KeyError", store |-> store]
    ELSE [raised |-> "none",
          store |-> [store EXCEPT ![key] =
                       @ \o <<user_msg, AIMessage(response_text, <<>>)>>]]

\* chat_simple after graph.ainvoke: whatever is raised becomes an HTTP 500.
chat_ainvoke_resume(t, raises) ==
    /\ tasks[t].pc = "ainvoke"
    /\ LET after == after_ainvoke(session_store, tasks[t].key, raises)
       IN /\ tasks' = [tasks EXCEPT ![t] = Finished(tasks[t].key, after.raised)]
          /\ session_store' = after.store
    /\ UNCHANGED <<pc, mcp_tools, loader_calls>>
    /\ UNCHANGED <<use_case, node, tools, state_messages, messages, iteration,
                   response, result, output, llm_calls, tool_batches, batch_size,
                   next_call_id, error, llm_raised, graph>>
    /\ UNCHANGED rag_vars
    /\ UNCHANGED applied
    /\ UNCHANGED mood_vars

\* reset_chat: session_store.pop(session_key, None)
reset_chat(key) ==
    /\ pc = "serving"
    /\ session_store' = [k \in DOMAIN session_store \ {key} |-> session_store[k]]
    /\ UNCHANGED <<pc, tasks, mcp_tools, loader_calls>>
    /\ UNCHANGED <<use_case, node, tools, state_messages, messages, iteration,
                   response, result, output, llm_calls, tool_batches, batch_size,
                   next_call_id, error, llm_raised, graph>>
    /\ UNCHANGED rag_vars
    /\ UNCHANGED applied
    /\ UNCHANGED mood_vars

NextServe ==
    \/ \E t \in TaskIds, key \in SessionKeys, provider_ok \in BOOLEAN :
         chat_simple(t, key, provider_ok)
    \/ \E t \in Coroutines : load_mcp_tools_call(t)
    \/ \E t \in Coroutines, raises \in BOOLEAN, ts \in LoadedTools :
         load_mcp_tools_resume(t, raises, ts)
    \/ \E t \in TaskIds, raises \in BOOLEAN : chat_setup_graph(t, raises)
    \/ \E t \in TaskIds, raises \in BOOLEAN : chat_ainvoke_resume(t, raises)
    \/ \E key \in SessionKeys : reset_chat(key)

SpecServe == Init /\ [][NextServe]_vars

\* C26 as stated: whatever the order and interleaving of the calls, the
\* loader is invoked at most once.
C26_LoaderAtMostOnce == loader_calls <= 1

\* Two requests are both waiting for the loader: it has been invoked once by
\* each, after both startup loads failed.
C26_ConcurrentLoads ==
    /\ tasks["t1"].pc = "load_tools"
    /\ tasks["t2"].pc = "load_tools"
    /\ loader_calls > 1

\* What the cache does guarantee: once a load has succeeded, no later call of load_mcp_tools invokes
\* the loader, and every call that starts then returns the cached list.
CachedAfterSuccess ==
    [][mcp_tools # NotLoaded =>
          /\ loader_calls' = loader_calls
          /\ \A t \in Coroutines :
                (AtLoad(t) /\ tasks'[t] # tasks[t]) =>
                    tasks'[t] = Loaded(t, mcp_tools, TRUE)]_vars

\* The startup load succeeded and a request got the cached list.
CachedListServed ==
    /\ pc = "serving"
    /\ loader_calls = 1
    /\ mcp_tools # NotLoaded
    /\ tasks["t1"] = [pc |-> "setup_graph", key |-> "s1::mcp_chatbot",
                      out |-> mcp_tools, cached |-> TRUE]

\* A request that has finished, and one whose graph run returned.
TurnOver(task) == task.pc = "idle" /\ task # NoTask

GraphReturned(task) == TurnOver(task) /\ task.raised \in {"none", "KeyError"}

Exchange == <<user_msg, AIMessage(response_text, <<>>)>>

\* C29: a chat turn whose graph run succeeds returns its response (and so
\* has recorded its exchange), whatever other requests ran meanwhile; a reset
\* of its session during graph.ainvoke does not make it fail.
C29_SucceededRunRecorded ==
    \A t \in TaskIds : GraphReturned(tasks[t]) => tasks[t].status = "success"

\* A reset of the session removed the key while the turn was suspended in
\* graph.ainvoke: the graph returned, the append raised KeyError, the turn
\* failed and nothing of it is stored.
C29_ResetDuringRun ==
    /\ tasks["t1"] = Finished("s1::mcp_chatbot", "KeyError")
    /\ tasks["t2"] = NoTask
    /\ "s1::mcp_chatbot" \notin DOMAIN session_store

\* C30: the stored messages of a session change only when a reset drops the
\* session or when a turn of that session returns successfully, and that
\* step appends exactly the human message then one assistant message; a step
\* that ends a turn in failure changes no stored messages.
C30_HistoryOnlyBySuccess ==
    [][/\ \A k \in SessionKeys :
             History(session_store', k) # History(session_store, k) =>
                \/ /\ k \notin DOMAIN session_store'
                   /\ tasks' = tasks
                \/ \E t \in TaskIds :
                      /\ tasks[t] = [pc |-> "ainvoke", key |-> k]
                      /\ tasks'[t] = Finished(k, "none")
                      /\ session_store'[k] = History(session_store, k) \o Exchange
       /\ \A t \in TaskIds :
             (tasks'[t] # tasks[t] /\ TurnOver(tasks'[t])
                 /\ tasks'[t].status = "failed") =>
                \A k \in SessionKeys :
                   History(session_store', k) = History(session_store, k)]_vars

\* One turn of the session failed in its graph run and another succeeded:
\* the history holds the one exchange of the successful turn.
C30_Witness ==
    /\ tasks["t1"] = Finished("s1::mcp_chatbot", "GraphError")
    /\ tasks["t2"] = Finished("s1::mcp_chatbot", "none")
    /\ History(session_store, "s1::mcp_chatbot") = Exchange

====
